---- MODULE Spec2Model ----
(***************************************************************************)
(* A model of MCAPTester (tester/MCAP_tester.py): one tester object with   *)
(* its test_failed_flag, and the four methods expect_near, expect_near_2d, *)
(* throw_error_if_test_failed and reset_test_failed_flag.                  *)
(*                                                                         *)
(* A Python value is a record [kind, shape, data]: an int/float is kind    *)
(* "scalar" with data <<v>>, a numpy.ndarray is kind "ndarray" with its    *)
(* shape and its elements in C (row-major) order, anything else is kind    *)
(* "other".  Numbers are integers; numpy's default relative tolerance      *)
(* 1e-5 is the exact fraction 1 / RtolDen.                                 *)
(*                                                                         *)
(* A behaviour is a test script over two values x and y chosen at the      *)
(* start: each call compares x with y, or x with a value of no supported   *)
(* type, under a tolerance and a message chosen at the call.  The          *)
(* variables op, actual, expected, tolerance, message, flag_before, out,   *)
(* raised and inspected record the last call: its arguments, the flag      *)
(* before it, the lines it printed, the exception it raised and the        *)
(* element positions it read.  failure_since_reset is a history variable:  *)
(* some call has printed a failure since __init__ or the last reset.       *)
(***************************************************************************)
EXTENDS Integers, Sequences, FiniteSets, TLC

VARIABLES x, y, op, actual, expected, tolerance, message,
          test_failed_flag, flag_before, out, raised, inspected,
          failure_since_reset

vars == <<x, y, op, actual, expected, tolerance, message,
          test_failed_flag, flag_before, out, raised, inspected,
          failure_since_reset>>

(***************************************************************************)
(* Bounds of the model.                                                    *)
(***************************************************************************)
MaxRank == 3
MaxDim == 2
MaxSize == 4
MaxTol == 1
Big == 200000

\* numpy.allclose's default rtol is 1e-05 = 1 / RtolDen
RtolDen == 100000

(***************************************************************************)
(* Values.                                                                 *)
(***************************************************************************)
Scalar(v) == [kind |-> "scalar", shape |-> <<>>, data |-> <<v>>]

NdArray(s, d) == [kind |-> "ndarray", shape |-> s, data |-> d]

Other == [kind |-> "other", shape |-> <<>>, data |-> <<>>]

IsScalar(v) == v.kind = "scalar"

IsNdArray(v) == v.kind = "ndarray"

RECURSIVE Prod(_)
Prod(s) == IF s = <<>> THEN 1 ELSE Head(s) * Prod(Tail(s))

Ndim(v) == Len(v.shape)

Size(v) == Len(v.data)

Abs(v) == IF v < 0 THEN -v ELSE v

(***************************************************************************)
(* The values of a test script.                                            *)
(***************************************************************************)
Shapes ==
    {s \in UNION {[1..r -> 1..MaxDim] : r \in 0..MaxRank} : Prod(s) <= MaxSize}

ArraysOver(elems) ==
    UNION {{NdArray(s, d) : d \in [1..Prod(s) -> elems]} : s \in Shapes}

ScalarsOver(elems) == {Scalar(v) : v \in elems}

\* actual: an element is far below Big, Big itself (scalars only) or one
\* above it
XValues ==
    ScalarsOver({0, Big, Big + 1}) \cup ArraysOver({0, Big + 1}) \cup {Other}

\* expected: every element is Big
YValues == ScalarsOver({Big}) \cup ArraysOver({Big}) \cup {Other}

Tolerances == 0..MaxTol

Messages == {"too far", "close enough"}

(***************************************************************************)
(* Exceptions and printed lines.                                           *)
(***************************************************************************)
NoError == [type |-> "none", text |-> ""]

Error(type, text) == [type |-> type, text |-> text]

\* the f-string written as a plain string: the message is never substituted
ScalarFailureLine_NoSubstitution(m) == "FAILURE: {message}"

ScalarFailureLine(m) == "FAILURE: " \o m

ShapeMismatchLine(m) == "FAILURE: " \o m \o " Shape mismatch."

ElementMismatchLine(m) == "FAILURE: " \o m \o " Element mismatch."

ElementMismatchAtLine(m, i, j) ==
    "FAILURE: " \o m \o " Element mismatch at ("
        \o ToString(i) \o ", " \o ToString(j) \o ")."

BlankLine == ""

(***************************************************************************)
(* The outcome of a call: the flag after it, the lines printed, the        *)
(* exception raised, the element positions read.                           *)
(***************************************************************************)
Outcome(flag, lines, err, seen) ==
    [flag |-> flag, out |-> lines, raised |-> err, inspected |-> seen]

\* a passing call that clears the flag
Pass_ClearsFlag(flag, seen) == Outcome(FALSE, <<>>, NoError, seen)

Pass(flag, seen) == Outcome(flag, <<>>, NoError, seen)

Fail(line, seen) == Outcome(TRUE, <<line, BlankLine>>, NoError, seen)

\* the shape branch without its assignment to the flag
ShapeMismatch_FlagNotSet(flag, m) ==
    Outcome(flag, <<ShapeMismatchLine(m), BlankLine>>, NoError, <<>>)

ShapeMismatch(flag, m) == Fail(ShapeMismatchLine(m), <<>>)

Raise(flag, err, seen) == Outcome(flag, <<>>, err, seen)

\* the unsupported-types branch recording a failure before it raises
Unsupported_Recorded(flag) ==
    Raise(TRUE, Error("TypeError", "Unsupported types for expect_near."), <<>>)

Unsupported(flag) ==
    Raise(flag, Error("TypeError", "Unsupported types for expect_near."), <<>>)

NotArrays(flag) ==
    Raise(flag,
          Error("TypeError", "Both actual and expected must be numpy arrays."),
          <<>>)

(***************************************************************************)
(* expect_near                                                             *)
(***************************************************************************)
\* the scalar comparison without abs()
Within_NoAbs(a, e, t) == a - e <= t

Within(a, e, t) == Abs(a - e) <= t

\* numpy.allclose(a, e, atol=t): every |a - e| <= atol + rtol * |e|.  With
\* integer elements and tolerance, |a - e| - atol is an integer, so it is at
\* most |e| / RtolDen exactly when it is at most the quotient rounded down.
AllClose(a, e, t) ==
    \A k \in 1..Size(a) :
        Abs(a.data[k] - e.data[k]) <= t + (Abs(e.data[k]) \div RtolDen)

AllCloseReads(a) == [k \in 1..Size(a) |-> <<k - 1>>]

ExpectNear(flag, a, e, t, m) ==
    IF IsScalar(a) /\ IsScalar(e)
    THEN IF Within(a.data[1], e.data[1], t)
         THEN Pass(flag, <<>>)
         ELSE Fail(ScalarFailureLine(m), <<>>)
    ELSE IF IsNdArray(a) /\ IsNdArray(e)
    THEN IF a.shape # e.shape
         THEN ShapeMismatch(flag, m)
         ELSE IF ~AllClose(a, e, t)
         THEN Fail(ElementMismatchLine(m), AllCloseReads(a))
         ELSE Pass(flag, AllCloseReads(a))
    ELSE Unsupported(flag)

(***************************************************************************)
(* expect_near_2d                                                          *)
(***************************************************************************)
\* v[i, j]: the elements under the first two indices (0-based), one element
\* for a 2-D array, a sub-array for an array of more dimensions
Cell(v, i, j) ==
    LET trail == Prod(SubSeq(v.shape, 3, Len(v.shape)))
        start == (i * v.shape[2] + j) * trail
    IN  SubSeq(v.data, start + 1, start + trail)

\* the two loops nested the other way round: columns outside, rows inside
RECURSIVE Scan_ColumnMajor(_, _, _, _, _, _, _)
Scan_ColumnMajor(flag, a, e, t, m, pos, seen) ==
    LET i == pos[1]
        j == pos[2]
    IN  IF Ndim(a) < 2
        THEN Raise(flag, Error("IndexError", "tuple index out of range"), seen)
        ELSE IF j >= a.shape[2]
        THEN Pass(flag, seen)
        ELSE IF i >= a.shape[1]
        THEN Scan_ColumnMajor(flag, a, e, t, m, <<0, j + 1>>, seen)
        ELSE IF Len(Cell(a, i, j)) # 1
        THEN Raise(flag,
                   Error("ValueError",
                         "The truth value of an array with more than one element is ambiguous."),
                   Append(seen, <<i, j>>))
        ELSE IF Abs(Cell(a, i, j)[1] - Cell(e, i, j)[1]) > t
        THEN Fail(ElementMismatchAtLine(m, i, j), Append(seen, <<i, j>>))
        ELSE Scan_ColumnMajor(flag, a, e, t, m, <<i + 1, j>>,
                              Append(seen, <<i, j>>))

\* the two nested loops, from row i and column j on
RECURSIVE Scan(_, _, _, _, _, _, _)
Scan(flag, a, e, t, m, pos, seen) ==
    LET i == pos[1]
        j == pos[2]
    IN  IF i >= a.shape[1]
        THEN Pass(flag, seen)
        ELSE IF Ndim(a) < 2
        THEN Raise(flag, Error("IndexError", "tuple index out of range"), seen)
        ELSE IF j >= a.shape[2]
        THEN Scan(flag, a, e, t, m, <<i + 1, 0>>, seen)
        ELSE IF Len(Cell(a, i, j)) # 1
        THEN Raise(flag,
                   Error("ValueError",
                         "The truth value of an array with more than one element is ambiguous."),
                   Append(seen, <<i, j>>))
        ELSE IF Abs(Cell(a, i, j)[1] - Cell(e, i, j)[1]) > t
        THEN Fail(ElementMismatchAtLine(m, i, j), Append(seen, <<i, j>>))
        ELSE Scan(flag, a, e, t, m, <<i, j + 1>>, Append(seen, <<i, j>>))

ExpectNear2d(flag, a, e, t, m) ==
    IF ~IsNdArray(a) \/ ~IsNdArray(e)
    THEN NotArrays(flag)
    ELSE IF a.shape # e.shape
    THEN ShapeMismatch(flag, m)
    ELSE IF Ndim(a) < 1
    THEN Raise(flag, Error("IndexError", "tuple index out of range"), <<>>)
    ELSE Scan(flag, a, e, t, m, <<0, 0>>, <<>>)

(***************************************************************************)
(* throw_error_if_test_failed, reset_test_failed_flag                      *)
(***************************************************************************)
\* the test of the flag inverted
ThrowErrorIfTestFailed_Inverted(flag) ==
    IF ~flag
    THEN Raise(flag, Error("RuntimeError", "Test failed."), <<>>)
    ELSE Pass(flag, <<>>)

ThrowErrorIfTestFailed(flag) ==
    IF flag
    THEN Raise(flag, Error("RuntimeError", "Test failed."), <<>>)
    ELSE Pass(flag, <<>>)

ResetTestFailedFlag(flag) == Pass(FALSE, <<>>)

(***************************************************************************)
(* The state machine.                                                      *)
(***************************************************************************)
Init ==
    /\ x \in XValues
    /\ y \in YValues
    /\ op = "__init__"
    /\ actual = x
    /\ expected = y
    /\ tolerance = 0
    /\ message = ""
    /\ test_failed_flag = FALSE
    /\ flag_before = FALSE
    /\ out = <<>>
    /\ raised = NoError
    /\ inspected = <<>>
    /\ failure_since_reset = FALSE

\* what a finished call leaves behind
Record(name, r) ==
    /\ op' = name
    /\ flag_before' = test_failed_flag
    /\ test_failed_flag' = r.flag
    /\ out' = r.out
    /\ raised' = r.raised
    /\ inspected' = r.inspected
    /\ UNCHANGED <<x, y>>

expect_near ==
    \E e \in {y, Other}, t \in Tolerances, m \in Messages :
        LET r == ExpectNear(test_failed_flag, x, e, t, m)
        IN  /\ Record("expect_near", r)
            /\ actual' = x
            /\ expected' = e
            /\ tolerance' = t
            /\ message' = m
            /\ failure_since_reset' = (failure_since_reset \/ r.out # <<>>)

expect_near_2d ==
    \E e \in {y, Other}, t \in Tolerances, m \in Messages :
        LET r == ExpectNear2d(test_failed_flag, x, e, t, m)
        IN  /\ Record("expect_near_2d", r)
            /\ actual' = x
            /\ expected' = e
            /\ tolerance' = t
            /\ message' = m
            /\ failure_since_reset' = (failure_since_reset \/ r.out # <<>>)

throw_error_if_test_failed ==
    /\ Record("throw_error_if_test_failed",
              ThrowErrorIfTestFailed(test_failed_flag))
    /\ UNCHANGED <<actual, expected, tolerance, message, failure_since_reset>>

reset_test_failed_flag ==
    /\ Record("reset_test_failed_flag", ResetTestFailedFlag(test_failed_flag))
    /\ failure_since_reset' = FALSE
    /\ UNCHANGED <<actual, expected, tolerance, message>>

Next ==
    \/ expect_near
    \/ expect_near_2d
    \/ throw_error_if_test_failed
    \/ reset_test_failed_flag

Spec == Init /\ [][Next]_vars

(***************************************************************************)
(* The claims.  Each is stated about the last call, as the state records   *)
(* it.                                                                     *)
(***************************************************************************)
Compared == op \in {"expect_near", "expect_near_2d"}

BothScalars == IsScalar(actual) /\ IsScalar(expected)

BothArrays == IsNdArray(actual) /\ IsNdArray(expected)

SameShape == BothArrays /\ actual.shape = expected.shape

ScalarDifference == Abs(actual.data[1] - expected.data[1])

\* the printed lines that are not blank
FailureLines == Cardinality({k \in 1..Len(out) : out[k] # BlankLine})

\* the flat positions of two arrays of one shape that differ by more than
\* the tolerance
FarElements ==
    {k \in 1..Size(actual) :
        Abs(actual.data[k] - expected.data[k]) > tolerance}

\* the 0-based coordinates of a 2-D array, and the element at one
Coords(v) == {<<i, j>> : i \in 0..(v.shape[1] - 1), j \in 0..(v.shape[2] - 1)}

At(v, c) == v.data[c[1] * v.shape[2] + c[2] + 1]

Offending ==
    {c \in Coords(actual) :
        Abs(At(actual, c) - At(expected, c)) > tolerance}

\* c is at or before d in row-major order
NotAfter(c, d) == c[1] < d[1] \/ (c[1] = d[1] /\ c[2] <= d[2])

First(S) == CHOOSE c \in S : \A d \in S : NotAfter(c, d)

Range(seq) == {seq[k] : k \in 1..Len(seq)}

\* C1: on two scalars expect_near leaves the flag as it was and prints
\* nothing when abs(actual - expected) <= tolerance, and sets the flag when
\* abs(actual - expected) > tolerance, whatever the flag was before.
C1_ScalarVerdict ==
    (op = "expect_near" /\ BothScalars) =>
        IF ScalarDifference <= tolerance
        THEN test_failed_flag = flag_before /\ out = <<>> /\ raised = NoError
        ELSE test_failed_flag = TRUE

\* C1 witness: a scalar call within a tolerance it needs (the values differ),
\* made with the flag already set, which stays set with nothing printed.
C1_Witness ==
    /\ op = "expect_near"
    /\ BothScalars
    /\ 0 < ScalarDifference
    /\ ScalarDifference <= tolerance
    /\ flag_before
    /\ test_failed_flag
    /\ out = <<>>

C3_AbsoluteTolerance ==
    (op = "expect_near" /\ SameShape) =>
        ((out = <<>> /\ test_failed_flag = flag_before) <=> FarElements = {})

\* C4: expect_near_2d given a value that is no array, or an array whose
\* number of dimensions is not 2, raises a TypeError, prints nothing and
\* leaves the flag as it was.
C4_TwoDimensionalOnly ==
    (/\ op = "expect_near_2d"
     /\ \/ ~IsNdArray(actual)
        \/ ~IsNdArray(expected)
        \/ Ndim(actual) # 2
        \/ Ndim(expected) # 2) =>
        /\ raised.type = "TypeError"
        /\ out = <<>>
        /\ test_failed_flag = flag_before

\* C5: on two 2-D arrays of one shape expect_near_2d reads the elements in
\* row-major order; if some element differs by more than the tolerance it
\* prints one line naming the first such coordinate in that order, sets the
\* flag and reads nothing after that coordinate; if none does it prints
\* nothing and leaves the flag as it was.
C5_FirstOffendingCoordinate ==
    (op = "expect_near_2d" /\ SameShape /\ Ndim(actual) = 2) =>
        /\ raised = NoError
        /\ \A k \in 1..(Len(inspected) - 1) :
               /\ NotAfter(inspected[k], inspected[k + 1])
               /\ inspected[k] # inspected[k + 1]
        /\ IF Offending = {}
           THEN /\ out = <<>>
                /\ test_failed_flag = flag_before
                /\ Range(inspected) = Coords(actual)
           ELSE LET c == First(Offending)
                IN  /\ out = <<ElementMismatchAtLine(message, c[1], c[2]),
                               BlankLine>>
                    /\ FailureLines = 1
                    /\ test_failed_flag = TRUE
                    /\ Range(inspected) =
                           {d \in Coords(actual) : NotAfter(d, c)}

\* C5 witness: a 2 x 2 call in which (0, 1) and (1, 0) both differ by more
\* than the tolerance and (0, 0) does not, which printed its one line.
C5_Witness ==
    /\ op = "expect_near_2d"
    /\ SameShape
    /\ actual.shape = <<2, 2>>
    /\ <<0, 0>> \notin Offending
    /\ <<0, 1>> \in Offending
    /\ <<1, 0>> \in Offending
    /\ Len(out) = 2

\* C6: on two arrays of unequal shape expect_near and expect_near_2d print
\* the one line "FAILURE: {message} Shape mismatch." and a blank line, set
\* the flag, and read no element.
C6_ShapeMismatchOnly ==
    (Compared /\ BothArrays /\ actual.shape # expected.shape) =>
        /\ out = <<"FAILURE: " \o message \o " Shape mismatch.", BlankLine>>
        /\ FailureLines = 1
        /\ test_failed_flag = TRUE
        /\ raised = NoError
        /\ inspected = <<>>

\* C6 witness: an expect_near_2d call on a 2-D and a 1-D array holding as
\* many elements, made with the flag clear, which set it.
C6_Witness ==
    /\ op = "expect_near_2d"
    /\ BothArrays
    /\ Ndim(actual) = 2
    /\ Ndim(expected) = 1
    /\ Size(actual) = Size(expected)
    /\ ~flag_before
    /\ test_failed_flag

\* C7: expect_near given one scalar and one array, or a value that is
\* neither, raises a TypeError, prints nothing and leaves the flag as it
\* was.
C7_UnsupportedTypesRaise ==
    (op = "expect_near" /\ ~BothScalars /\ ~BothArrays) =>
        /\ raised.type = "TypeError"
        /\ out = <<>>
        /\ test_failed_flag = flag_before

\* C7 witness: an expect_near call on a scalar and an array, which raised.
C7_Witness ==
    /\ op = "expect_near"
    /\ IsScalar(actual)
    /\ IsNdArray(expected)
    /\ raised.type = "TypeError"

\* C8: the flag starts false, and no step other than
\* reset_test_failed_flag takes it from true to false.
C8_OnlyResetClears ==
    /\ ~test_failed_flag
    /\ [][(test_failed_flag /\ ~test_failed_flag')
              => op' = "reset_test_failed_flag"]_vars

\* C8 witness: a comparison that passed with the flag set, which stays set.
C8_Witness ==
    /\ Compared
    /\ flag_before
    /\ out = <<>>
    /\ raised = NoError
    /\ test_failed_flag

\* C9: throw_error_if_test_failed raises RuntimeError("Test failed.") if
\* and only if a call has printed a failure since the tester was created or
\* last reset; it raises nothing else, prints nothing and leaves the flag as
\* it was.
C9_RaisesIffFailureSinceReset ==
    (op = "throw_error_if_test_failed") =>
        /\ (raised = Error("RuntimeError", "Test failed."))
               <=> failure_since_reset
        /\ raised.type \in {"RuntimeError", "none"}
        /\ out = <<>>
        /\ test_failed_flag = flag_before

\* C9 witness: a throw_error_if_test_failed that raised.
C9_Witness ==
    /\ op = "throw_error_if_test_failed"
    /\ raised.type = "RuntimeError"
    /\ failure_since_reset

\* C10: a comparison on valid inputs (two scalars or two arrays for
\* expect_near, two 2-D arrays for expect_near_2d) never raises and prints
\* one failure line exactly when its inputs mismatch (unequal shapes, or an
\* element with abs(a - e) > tolerance), whatever the flag was before; so
\* over any sequence of calls the lines printed number the mismatching
\* calls.
C10_OneLinePerMismatch ==
    (\/ op = "expect_near" /\ (BothScalars \/ BothArrays)
     \/ op = "expect_near_2d" /\ BothArrays
            /\ Ndim(actual) = 2 /\ Ndim(expected) = 2) =>
        LET mismatch ==
                IF BothScalars
                THEN ScalarDifference > tolerance
                ELSE actual.shape # expected.shape \/ FarElements # {}
        IN  /\ raised = NoError
            /\ FailureLines = (IF mismatch THEN 1 ELSE 0)
            /\ test_failed_flag = (flag_before \/ mismatch)

====
